---- MODULE Spec2Model ----
(***************************************************************************)
(* SceneDetector of src/ai_modules/scene_detection.py as a state machine.  *)
(*                                                                         *)
(* One SceneDetector instance (threshold, min_scene_length,                *)
(* scene_timestamps) is called repeatedly; every call of detect_scenes     *)
(* walks through the positions of its code: open the capture, read the     *)
(* properties, initialise the scan, read frame after frame, finish.        *)
(*                                                                         *)
(* Times are Python floats in the code.  Here a time is an exact fraction  *)
(* <<numerator, denominator>> in lowest terms, so that 2/2 and 1/1 are the *)
(* same value as they are for the code's division; comparisons and the     *)
(* subtraction of the minimum-length gate are computed on fractions.       *)
(* Scores and thresholds are integers: only their order matters.           *)
(***************************************************************************)
EXTENDS Integers, Sequences, FiniteSets, TLC

\* ------------------------------------------------------------------ bounds
MaxFrames == 3      \* frames a source reports or delivers
MaxFps == 2         \* frames per second a source reports (0 included)
MaxScore == 2       \* dissimilarity scores are 0..MaxScore
MaxMinLen == 2      \* min_scene_length is -1..MaxMinLen seconds
ReuseFrames == 3    \* frames of the videos of SpecReuse
MaxLongFrames == 60 \* frames of the longest videos of SpecProgress
SplitFrames == 2    \* frames of the videos of SpecSplit

\* Update every 30 frames (line 93)
ProgressEvery == 30

\* Python's None, and a value that is not None
None == <<>>

Some(x) == <<x>>

\* -------------------------------------------------------------- fractions
RECURSIVE GCD(_, _)
GCD(a, b) == IF b = 0 THEN a ELSE GCD(b, a % b)

Abs(x) == IF x < 0 THEN -x ELSE x

\* n / d for d > 0, in lowest terms
TrueDiv(n, d) ==
    LET g == GCD(Abs(n), d)
    IN  <<n \div g, d \div g>>

Zero == <<0, 1>>

FromInt(n) == <<n, 1>>

Sub(a, b) == TrueDiv(a[1] * b[2] - b[1] * a[2], a[2] * b[2])

Mul(a, k) == TrueDiv(a[1] * k, a[2])

GE(a, b) == a[1] * b[2] >= b[1] * a[2]

GT(a, b) == a[1] * b[2] > b[1] * a[2]

\* ------------------------------------------------------------------ videos
Scores == 0 .. MaxScore

Thresholds == -1 .. MaxScore

MinLengths == -1 .. MaxMinLen

\* the scores of the pairs (frame i-1, frame i), i = 1 .. frames-1
ScoreSeqs(m) == [1 .. (IF m = 0 THEN 0 ELSE m - 1) -> Scores]

\* what a frame source reports (fps, total_frames) and what it delivers
\* (frames, and the score of each adjacent pair of them)
Videos ==
    UNION { { [fps |-> f, total_frames |-> n, frames |-> m, scores |-> s] :
              s \in ScoreSeqs(m) } :
            <<f, n, m>> \in (0 .. MaxFps) \X (0 .. MaxFrames) \X (0 .. MaxFrames) }

VARIABLES
    threshold,          \* self.threshold
    min_scene_length,   \* self.min_scene_length
    scene_timestamps,   \* self.scene_timestamps
    files,              \* the videos that can be opened, by path
    caller_lists,       \* the interval lists callers pass explicitly
    caller_callbacks,   \* whether callers pass a progress_callback
    pc,                 \* position of the call in progress
    in_process,         \* whether the call was made by process_video
    video_path,         \* argument of detect_scenes
    has_callback,       \* whether progress_callback was given
    cap,                \* the capture: "none", "open", "released"
    fps,
    total_frames,
    duration,
    scene_changes,
    prev_frame,         \* None, or Some(index of the previous frame)
    frame_count,
    reads,              \* calls of cap.read() made by this call
    progress_log,       \* the values passed to progress_callback
    result,             \* Some(the list returned), None before
    error,              \* the exception raised, "none" before
    history,            \* per path, Some(the list last returned for it)
    prior_result,       \* history[video_path] when the call began
    prior_timestamps,   \* self.scene_timestamps when the call began
    split_path,         \* argument video_path of split_video_into_scenes
    split_list,         \* its local scene_timestamps, after lines 121-122
    split_i,            \* intervals its loop has passed
    attempts,           \* scene numbers whose extraction was attempted
    created_clips,      \* scene numbers of the clips created
    dir_created,        \* whether os.makedirs(output_dir) ran
    video_clip,         \* the VideoFileClip: "none", "open", "closed"
    report              \* Some(the scene_info written), None before

self_vars == <<threshold, min_scene_length, scene_timestamps>>

env_vars == <<files, caller_lists, caller_callbacks>>

local_vars == <<video_path, has_callback, cap, fps, total_frames, duration,
                scene_changes, prev_frame, frame_count, reads, progress_log,
                result, error>>

local_vars_but_error ==
    <<video_path, has_callback, cap, fps, total_frames, duration,
      scene_changes, prev_frame, frame_count, reads, progress_log, result,
      prior_result, prior_timestamps>>

split_vars == <<split_path, split_list, split_i, attempts, created_clips,
                dir_created, video_clip, report>>

vars == <<threshold, min_scene_length, scene_timestamps, files, caller_lists,
          caller_callbacks,
          pc, in_process,
          video_path, has_callback, cap, fps, total_frames, duration,
          scene_changes, prev_frame, frame_count, reads, progress_log,
          result, error, history, prior_result, prior_timestamps,
          split_path, split_list, split_i, attempts, created_clips,
          dir_created, video_clip, report>>

\* paths a caller may pass: those of the files, and 0, which names no
\* openable file
Paths == {0} \cup DOMAIN files

\* ------------------------------------------------------ SceneDetector.__init__
InitDetector(th, ml) ==
    /\ threshold = th
    /\ min_scene_length = ml
    /\ scene_timestamps = <<>>

NoSplit ==
    /\ split_path = 0
    /\ split_list = <<>>
    /\ split_i = 0
    /\ attempts = <<>>
    /\ created_clips = <<>>
    /\ dir_created = FALSE
    /\ video_clip = "none"
    /\ report = None

NoCall ==
    /\ pc = "idle"
    /\ in_process = FALSE
    /\ video_path = 0
    /\ has_callback = FALSE
    /\ cap = "none"
    /\ fps = 0
    /\ total_frames = 0
    /\ duration = Zero
    /\ scene_changes = <<>>
    /\ prev_frame = None
    /\ frame_count = 0
    /\ reads = 0
    /\ progress_log = <<>>
    /\ result = None
    /\ error = "none"
    /\ prior_result = None
    /\ prior_timestamps = <<>>
    /\ NoSplit

\* one video file exists; callers pass no progress_callback, and no interval
\* list but the empty one
Init ==
    /\ \E th \in Thresholds, ml \in MinLengths : InitDetector(th, ml)
    /\ files \in [{1} -> Videos]
    /\ caller_lists = {<<>>}
    /\ caller_callbacks = {FALSE}
    /\ history = [p \in DOMAIN files |-> None]
    /\ NoCall

\* sources that deliver the frames they report, at one frame per second
ReuseVideos ==
    { v \in Videos : v.fps = 1 /\ v.frames = v.total_frames
                      /\ v.frames \in 1 .. ReuseFrames }

\* a second source of two frames; its fps may be 0
OtherVideos ==
    { v \in Videos : v.fps <= 1 /\ v.frames = 2 /\ v.total_frames = 2 }

\* two video files exist; callers pass the empty list or one short interval
InitReuse ==
    /\ \E th \in Thresholds, ml \in MinLengths : InitDetector(th, ml)
    /\ \E v \in ReuseVideos, w \in OtherVideos : files = <<v, w>>
    /\ caller_lists = {<<>>, << <<Zero, <<3, 10>>>> >>}
    /\ caller_callbacks = {FALSE}
    /\ history = [p \in DOMAIN files |-> None]
    /\ NoCall

\* long sources without any visual change, which report no frame, or
\* ProgressEvery or MaxLongFrames frames, and deliver as many or others
LongVideos ==
    { [fps |-> f, total_frames |-> n, frames |-> m,
       scores |-> [i \in 1 .. (IF m = 0 THEN 0 ELSE m - 1) |-> 0]] :
      f \in 0 .. 1,
      n \in {0, ProgressEvery, MaxLongFrames},
      m \in {0, ProgressEvery, MaxLongFrames} }

\* one long video file exists; callers may pass a progress_callback
InitProgress ==
    /\ InitDetector(1, 1)
    /\ files \in [{1} -> LongVideos]
    /\ caller_lists = {<<>>}
    /\ caller_callbacks = BOOLEAN
    /\ history = [p \in DOMAIN files |-> None]
    /\ NoCall

\* short sources that deliver the frames they report
SplitVideos ==
    { v \in Videos : v.frames = v.total_frames /\ v.frames <= SplitFrames }

\* the times 0, 0.3, 0.8 and 1.5 seconds, between which the intervals of
\* the explicit lists lie: they last 0.3, 0.5, 0.7, 0.8, 1.2 or 1.5 seconds,
\* or are empty or end before they start
SplitMarks == << Zero, <<3, 10>>, <<4, 5>>, <<3, 2>> >>

\* the lists a caller passes as scene_timestamps: the empty list, one
\* interval, or two contiguous intervals
ExplicitLists ==
    {<<>>}
    \cup { << <<SplitMarks[a], SplitMarks[b]>> >> :
             a \in 1 .. 3, b \in 2 .. 4 }
    \cup { << <<SplitMarks[a], SplitMarks[b]>>,
              <<SplitMarks[b], SplitMarks[c]>> >> :
             a \in 1 .. 2, b \in 2 .. 3, c \in 3 .. 4 }

\* one short video file exists; callers pass explicit interval lists
InitSplit ==
    /\ InitDetector(1, 1)
    /\ files \in [{1} -> SplitVideos]
    /\ caller_lists = ExplicitLists
    /\ caller_callbacks = {FALSE}
    /\ history = [p \in DOMAIN files |-> None]
    /\ NoCall

\* no call is in progress: a caller may make the next one
Quiescent ==
    \/ pc \in {"idle", "raised", "split_returned", "split_raised"}
    \/ pc = "returned" /\ ~in_process

\* ------------------------------------------------------------ detect_scenes
\* the locals of split_video_into_scenes are gone
SplitLocalsGone ==
    /\ split_path' = 0
    /\ split_list' = <<>>
    /\ split_i' = 0
    /\ attempts' = <<>>
    /\ created_clips' = <<>>
    /\ dir_created' = FALSE
    /\ video_clip' = "none"
    /\ report' = None

\* detect_scenes entered with self.scene_timestamps cleared for the new call
StartDetectClears(path, cb, inproc) ==
    /\ Quiescent
    /\ pc' = "opened"
    /\ in_process' = inproc
    /\ video_path' = path
    /\ has_callback' = cb
    /\ cap' = IF path \in DOMAIN files THEN "open" ELSE "none"
    /\ fps' = 0
    /\ total_frames' = 0
    /\ duration' = Zero
    /\ scene_changes' = <<>>
    /\ prev_frame' = None
    /\ frame_count' = 0
    /\ reads' = 0
    /\ progress_log' = <<>>
    /\ result' = None
    /\ error' = "none"
    /\ prior_result' = IF path \in DOMAIN history THEN history[path] ELSE None
    /\ prior_timestamps' = scene_timestamps
    /\ scene_timestamps' = <<>>
    /\ SplitLocalsGone
    /\ UNCHANGED <<threshold, min_scene_length, env_vars, history>>

\* lines 52-55: detect_scenes is entered and constructs the capture
StartDetect(path, cb, inproc) ==
    /\ Quiescent
    /\ pc' = "opened"
    /\ in_process' = inproc
    /\ video_path' = path
    /\ has_callback' = cb
    /\ cap' = IF path \in DOMAIN files THEN "open" ELSE "none"
    /\ fps' = 0
    /\ total_frames' = 0
    /\ duration' = Zero
    /\ scene_changes' = <<>>
    /\ prev_frame' = None
    /\ frame_count' = 0
    /\ reads' = 0
    /\ progress_log' = <<>>
    /\ result' = None
    /\ error' = "none"
    /\ prior_result' = IF path \in DOMAIN history THEN history[path] ELSE None
    /\ prior_timestamps' = scene_timestamps
    /\ SplitLocalsGone
    /\ UNCHANGED <<self_vars, env_vars, history>>

\* a caller calls detect_scenes
Call(path, cb) == StartDetect(path, cb, FALSE)

\* lines 221-228: a caller calls process_video, which calls detect_scenes
ProcessVideo(path, cb) == StartDetect(path, cb, TRUE)

\* lines 56-57: the capture did not open
OpenFailed ==
    /\ pc = "opened"
    /\ cap # "open"
    /\ pc' = "raised"
    /\ error' = "CouldNotOpen"
    /\ UNCHANGED <<self_vars, env_vars, history, prior_result, prior_timestamps,
                   in_process, video_path, has_callback, cap,
                   fps, total_frames, duration, scene_changes, prev_frame,
                   frame_count, reads, progress_log, result, split_vars>>

\* lines 60-62, fps = 0: total_frames / fps raises ZeroDivisionError
GetPropertiesZeroFps ==
    /\ pc = "opened"
    /\ cap = "open"
    /\ files[video_path].fps = 0
    /\ fps' = files[video_path].fps
    /\ total_frames' = files[video_path].total_frames
    /\ pc' = "raised"
    /\ error' = "ZeroDivisionError"
    /\ UNCHANGED <<self_vars, env_vars, history, prior_result, prior_timestamps,
                   in_process, video_path, has_callback, cap,
                   duration, scene_changes, prev_frame, frame_count, reads,
                   progress_log, result, split_vars>>

\* the boundary list carried over from the instance's last result
StaleSceneChanges ==
    IF scene_timestamps = <<>>
    THEN <<Zero>>
    ELSE <<Zero, scene_timestamps[1][2]>>

\* line 67
InitialSceneChanges == <<Zero>>

\* lines 60-69
GetProperties ==
    /\ pc = "opened"
    /\ cap = "open"
    /\ files[video_path].fps # 0
    /\ fps' = files[video_path].fps
    /\ total_frames' = files[video_path].total_frames
    /\ duration' = TrueDiv(files[video_path].total_frames, files[video_path].fps)
    /\ scene_changes' = InitialSceneChanges
    /\ prev_frame' = None
    /\ frame_count' = 0
    /\ pc' = "scan"
    /\ UNCHANGED <<self_vars, env_vars, history, prior_result, prior_timestamps,
                   in_process, video_path, has_callback, cap,
                   reads, progress_log, result, error, split_vars>>

\* Accepts with the threshold comparison reversed
AcceptsBelowThreshold(sc, t, d, th, ml) ==
    /\ d < th
    /\ (Len(sc) = 1 \/ GE(Sub(t, sc[Len(sc)]), FromInt(ml)))

\* Accepts with the minimum-length comparison reversed
AcceptsWithinMinLength(sc, t, d, th, ml) ==
    /\ d > th
    /\ (Len(sc) = 1 \/ GE(FromInt(ml), Sub(t, sc[Len(sc)])))

\* Accepts with the threshold comparison not strict
AcceptsAtThreshold(sc, t, d, th, ml) ==
    /\ d >= th
    /\ (Len(sc) = 1 \/ GE(Sub(t, sc[Len(sc)]), FromInt(ml)))

\* Accepts without the minimum-length gate
AcceptsUngated(sc, t, d, th, ml) == d > th

\* line 82 and line 85: is timestamp t, of a pair scoring d, a new boundary
Accepts(sc, t, d, th, ml) ==
    /\ d > th
    /\ (Len(sc) = 1 \/ GE(Sub(t, sc[Len(sc)]), FromInt(ml)))

\* lines 77-87: the boundary list after frame i, whose pair scores d
ScanStep(sc, i, d, f, th, ml) ==
    IF Accepts(sc, TrueDiv(i, f), d, th, ml)
    THEN Append(sc, TrueDiv(i, f))
    ELSE sc

\* lines 67-90: the boundary list after the first k frames of video v, scanned
\* with threshold th and minimum scene length ml (frame 0 has no predecessor)
RECURSIVE Boundaries(_, _, _, _)
Boundaries(v, th, ml, k) ==
    IF k <= 1
    THEN <<Zero>>
    ELSE ScanStep(Boundaries(v, th, ml, k - 1), k - 1, v.scores[k - 1],
                  v.fps, th, ml)

\* the number of boundaries the scan of v accepts
DetectedCount(v, th, ml) == Len(Boundaries(v, th, ml, v.frames)) - 1

\* lines 93-95: the progress value reported after n frames
Progress(n, total) == Mul(TrueDiv(n, total), 100)

\* lines 93-95 after frame_count became n: the callback, when due, is passed
\* the progress value and may raise; with total_frames = 0 line 94 raises
ReportProgress(n) ==
    IF has_callback /\ n % ProgressEvery = 0
    THEN IF total_frames = 0
         THEN /\ pc' = "raised"
              /\ error' = "ZeroDivisionError"
              /\ UNCHANGED progress_log
         ELSE /\ progress_log' = Append(progress_log, Progress(n, total_frames))
              /\ \E callback_returns \in BOOLEAN :
                    IF callback_returns
                    THEN UNCHANGED <<pc, error>>
                    ELSE /\ pc' = "raised"
                         /\ error' = "CallbackFailed"
    ELSE UNCHANGED <<pc, error, progress_log>>

\* lines 73-95: a frame is read and processed; the comparison of line 79
\* (OpenCV) and the callback of line 95 (the caller's) may raise
ReadFrame ==
    /\ pc = "scan"
    /\ frame_count < files[video_path].frames
    /\ reads' = reads + 1
    /\ \E compared \in (IF prev_frame # None THEN BOOLEAN ELSE {TRUE}) :
          IF compared
          THEN /\ scene_changes' =
                     IF prev_frame # None
                     THEN ScanStep(scene_changes, frame_count,
                                   files[video_path].scores[frame_count], fps,
                                   threshold, min_scene_length)
                     ELSE scene_changes
               /\ prev_frame' = Some(frame_count)
               /\ frame_count' = frame_count + 1
               /\ ReportProgress(frame_count + 1)
          ELSE /\ pc' = "raised"
               /\ error' = "CompareFailed"
               /\ UNCHANGED <<scene_changes, prev_frame, frame_count,
                              progress_log>>
    /\ UNCHANGED <<self_vars, env_vars, history, prior_result, prior_timestamps,
                   in_process, video_path, has_callback, cap,
                   fps, total_frames, duration, result, split_vars>>

\* ScenePairs with the range one short: the last pair is lost
ScenePairsShort(sc) == [i \in 1 .. Len(sc) - 2 |-> <<sc[i], sc[i + 1]>>]

\* lines 101-102
ScenePairs(sc) == [i \in 1 .. Len(sc) - 1 |-> <<sc[i], sc[i + 1]>>]

\* the end timestamp merged into a last boundary closer than min_scene_length
MergedEndTimestamp(sc, dur) ==
    IF Len(sc) > 1 /\ ~GE(Sub(dur, sc[Len(sc)]), FromInt(min_scene_length))
    THEN [sc EXCEPT ![Len(sc)] = dur]
    ELSE Append(sc, dur)

\* line 98
AddEndTimestamp(sc, dur) == Append(sc, dur)

\* lines 73-75 with the source exhausted, then lines 98-107
Finish ==
    /\ pc = "scan"
    /\ frame_count = files[video_path].frames
    /\ reads' = reads + 1
    /\ scene_changes' = AddEndTimestamp(scene_changes, duration)
    /\ scene_timestamps' = ScenePairs(AddEndTimestamp(scene_changes, duration))
    /\ cap' = "released"
    /\ result' = Some(ScenePairs(AddEndTimestamp(scene_changes, duration)))
    /\ history' = [history EXCEPT ![video_path] =
                      Some(ScenePairs(AddEndTimestamp(scene_changes, duration)))]
    /\ pc' = "returned"
    /\ UNCHANGED <<threshold, min_scene_length, env_vars, prior_result,
                   prior_timestamps, in_process, video_path,
                   has_callback, fps, total_frames, duration, prev_frame,
                   frame_count, progress_log, error, split_vars>>

\* -------------------------------------------------- split_video_into_scenes
\* line 143: the shortest scene that is written as a clip, 0.5 s
ClipFloor == <<1, 2>>

\* TooShort with the comparison not strict: a scene of exactly 0.5 s is skipped
TooShortOrEqual(start_time, end_time) ==
    GE(ClipFloor, Sub(end_time, start_time))

\* lines 141-143: scene_duration < 0.5
TooShort(start_time, end_time) ==
    ~GE(Sub(end_time, start_time), ClipFloor)

\* lines 179-195: the scene information that is written as JSON
SceneInfo(list, created) ==
    [total_scenes |-> Len(list),
     created_clips |-> Len(created),
     detection_threshold |-> threshold,
     min_scene_length |-> min_scene_length,
     scenes |-> [i \in 1 .. Len(list) |->
                    [scene_number |-> i,
                     start_time |-> list[i][1],
                     end_time |-> list[i][2],
                     duration |-> Sub(list[i][2], list[i][1])]]]

\* the locals of detect_scenes are gone
DetectLocalsGone ==
    /\ video_path' = 0
    /\ has_callback' = FALSE
    /\ cap' = "none"
    /\ fps' = 0
    /\ total_frames' = 0
    /\ duration' = Zero
    /\ scene_changes' = <<>>
    /\ prev_frame' = None
    /\ frame_count' = 0
    /\ reads' = 0
    /\ progress_log' = <<>>
    /\ result' = None
    /\ prior_result' = None
    /\ prior_timestamps' = <<>>

\* split_video_into_scenes is entered with its arguments; list is its local
\* scene_timestamps
EnterSplit(path, list, inproc) ==
    /\ pc' = "split_called"
    /\ in_process' = inproc
    /\ split_path' = path
    /\ split_list' = list
    /\ split_i' = 0
    /\ attempts' = <<>>
    /\ created_clips' = <<>>
    /\ dir_created' = FALSE
    /\ video_clip' = "none"
    /\ report' = None
    /\ error' = "none"
    /\ DetectLocalsGone
    /\ UNCHANGED <<self_vars, env_vars, history>>

\* lines 121-122: a caller calls split_video_into_scenes, with a list of its
\* own or with None, which stands for self.scene_timestamps
SplitCall(path, arg) ==
    /\ Quiescent
    /\ EnterSplit(path, IF arg = None THEN scene_timestamps ELSE arg[1], FALSE)

\* process_video going on to split whatever detect_scenes did
ProcessVideoSplitAnyway ==
    /\ in_process
    /\ pc \in {"returned", "raised"}
    /\ EnterSplit(video_path, scene_timestamps, TRUE)

\* lines 228-232: detect_scenes returned to process_video, which passes the
\* list on to split_video_into_scenes
ProcessVideoSplit ==
    /\ in_process
    /\ pc = "returned"
    /\ EnterSplit(video_path, result[1], TRUE)

\* the check of line 124 made after the output directory is created
SplitRejectedLate ==
    /\ pc = "split_called"
    /\ split_list = <<>>
    /\ dir_created' = TRUE
    /\ pc' = "split_raised"
    /\ error' = "NoTimestamps"
    /\ UNCHANGED <<self_vars, env_vars, history, local_vars_but_error,
                   in_process, split_path, split_list, split_i, attempts,
                   created_clips, video_clip, report>>

\* lines 124-125: no scene timestamps
SplitRejected ==
    /\ pc = "split_called"
    /\ split_list = <<>>
    /\ pc' = "split_raised"
    /\ error' = "NoTimestamps"
    /\ UNCHANGED <<self_vars, env_vars, history, local_vars_but_error,
                   in_process, split_vars>>

\* lines 128-135: the directory is created, the video cannot be loaded
SplitLoadFailed ==
    /\ pc = "split_called"
    /\ split_list # <<>>
    /\ split_path \notin DOMAIN files
    /\ dir_created' = TRUE
    /\ pc' = "split_raised"
    /\ error' = "LoadFailed"
    /\ UNCHANGED <<self_vars, env_vars, history, local_vars_but_error,
                   in_process, split_path, split_list, split_i, attempts,
                   created_clips, video_clip, report>>

\* lines 128-137: the directory is created and the video loaded
SplitBegin ==
    /\ pc = "split_called"
    /\ split_list # <<>>
    /\ split_path \in DOMAIN files
    /\ dir_created' = TRUE
    /\ video_clip' = "open"
    /\ created_clips' = <<>>
    /\ pc' = "splitting"
    /\ UNCHANGED <<self_vars, env_vars, history, local_vars_but_error, error,
                   in_process, split_path, split_list, split_i, attempts,
                   report>>

\* lines 140-145: a scene too short is skipped
SplitSkip ==
    /\ pc = "splitting"
    /\ split_i < Len(split_list)
    /\ TooShort(split_list[split_i + 1][1], split_list[split_i + 1][2])
    /\ split_i' = split_i + 1
    /\ UNCHANGED <<self_vars, env_vars, history, local_vars_but_error, error,
                   pc, in_process, split_path, split_list, attempts,
                   created_clips, dir_created, video_clip, report>>

\* SplitClip without the try of line 150: a failing clip ends the call
SplitClipUncaught ==
    /\ pc = "splitting"
    /\ split_i < Len(split_list)
    /\ ~TooShort(split_list[split_i + 1][1], split_list[split_i + 1][2])
    /\ attempts' = Append(attempts, split_i + 1)
    /\ \E written \in BOOLEAN :
          IF written
          THEN /\ created_clips' = Append(created_clips, split_i + 1)
               /\ split_i' = split_i + 1
               /\ UNCHANGED <<pc, error>>
          ELSE /\ pc' = "split_raised"
               /\ error' = "ClipFailed"
               /\ UNCHANGED <<created_clips, split_i>>
    /\ UNCHANGED <<self_vars, env_vars, history, local_vars_but_error,
                   in_process, split_path, split_list,
                   dir_created, video_clip, report>>

\* lines 140-174: a scene is extracted and written as a clip; subclip and
\* write_videofile may raise, which line 172 catches
SplitClip ==
    /\ pc = "splitting"
    /\ split_i < Len(split_list)
    /\ ~TooShort(split_list[split_i + 1][1], split_list[split_i + 1][2])
    /\ attempts' = Append(attempts, split_i + 1)
    /\ \E written \in BOOLEAN :
          created_clips' = IF written
                           THEN Append(created_clips, split_i + 1)
                           ELSE created_clips
    /\ split_i' = split_i + 1
    /\ UNCHANGED <<self_vars, env_vars, history, local_vars_but_error, error,
                   pc, in_process, split_path, split_list,
                   dir_created, video_clip, report>>

\* lines 176-206: the video is closed, the report written, the clips returned
SplitFinish ==
    /\ pc = "splitting"
    /\ split_i = Len(split_list)
    /\ video_clip' = "closed"
    /\ report' = Some(SceneInfo(split_list, created_clips))
    /\ pc' = "split_returned"
    /\ UNCHANGED <<self_vars, env_vars, history, local_vars_but_error, error,
                   in_process, split_path, split_list, split_i, attempts,
                   created_clips, dir_created>>

Next ==
    \/ \E path \in Paths, cb \in caller_callbacks : Call(path, cb)
    \/ \E path \in Paths, cb \in caller_callbacks : ProcessVideo(path, cb)
    \/ OpenFailed
    \/ GetPropertiesZeroFps
    \/ GetProperties
    \/ ReadFrame
    \/ Finish
    \/ ProcessVideoSplit
    \/ \E path \in Paths, arg \in {None} \cup {Some(l) : l \in caller_lists} :
          SplitCall(path, arg)
    \/ SplitRejected
    \/ SplitLoadFailed
    \/ SplitBegin
    \/ SplitSkip
    \/ SplitClip
    \/ SplitFinish

Spec == Init /\ [][Next]_vars

SpecReuse == InitReuse /\ [][Next]_vars

SpecProgress == InitProgress /\ [][Next]_vars

SpecSplit == InitSplit /\ [][Next]_vars

\* ------------------------------------------------------------------ claims
\* the video the call in progress was given, and the list it returned
Video == files[video_path]

Returned == result[1]

\* the timestamp of frame i of the call's video
TimeOf(i) == <<i, fps>>

\* C1: a call on a source that delivers exactly total_frames >= 1 frames (fps > 0)
\* returns at least one interval; the first starts at 0, the last ends at
\* total_frames / fps, and every interval ends where the next one starts.
C1_CoversDuration ==
    (pc = "returned" /\ Video.frames = Video.total_frames /\ Video.total_frames >= 1) =>
        /\ Len(Returned) >= 1
        /\ Returned[1][1] = <<0, 1>>
        /\ Returned[Len(Returned)][2][1] * Video.fps
              = Video.total_frames * Returned[Len(Returned)][2][2]
        /\ \A i \in 1 .. Len(Returned) - 1 : Returned[i][2] = Returned[i + 1][1]

\* a call on a well-formed source returned three intervals
C1_Witness ==
    /\ pc = "returned"
    /\ Video.frames = Video.total_frames
    /\ Video.total_frames >= 1
    /\ Len(Returned) = 3

\* C2: in every list returned, every interval ends after it starts, whatever
\* the source reports (total_frames >= 0) and delivers.
C2_IntervalsNonEmpty ==
    pc = "returned" =>
        \A i \in 1 .. Len(Returned) : GT(Returned[i][2], Returned[i][1])

\* C3: the frame with index i >= 1 appends its timestamp i / fps to the boundary
\* list iff its score is above the threshold and the list holds only the
\* initial 0 or the timestamp is at least min_scene_length after the last
\* boundary; frame 0, and every other frame, leaves the list as it is.
C3_AcceptanceRule ==
    [][(pc = "scan" /\ frame_count' = frame_count + 1) =>
          LET i == frame_count
              last == scene_changes[Len(scene_changes)]
          IN  IF /\ i >= 1
                 /\ Video.scores[i] > threshold
                 /\ \/ Len(scene_changes) = 1
                    \/ (i * last[2] - last[1] * fps) >= min_scene_length * fps * last[2]
              THEN scene_changes' = Append(scene_changes, TrueDiv(i, fps))
              ELSE scene_changes' = scene_changes]_vars

\* after three frames: the first change was accepted although earlier than
\* min_scene_length, the next pair scored exactly the threshold and was not
C3_Witness ==
    /\ pc = "scan"
    /\ frame_count = 3
    /\ Video.scores[1] > threshold
    /\ Video.scores[2] = threshold
    /\ min_scene_length * fps > 1
    /\ scene_changes = <<Zero, TrueDiv(1, fps)>>

C5_ThresholdMonotone ==
    pc = "returned" =>
        \A th \in Thresholds :
            /\ threshold <= th =>
                  DetectedCount(Video, th, min_scene_length) <= Len(Returned) - 1
            /\ th <= threshold =>
                  Len(Returned) - 1 <= DetectedCount(Video, th, min_scene_length)

\* a higher threshold leaves fewer candidates and yet as many boundaries, at
\* other timestamps: the lower threshold's first change shadows the second
C5_Witness ==
    /\ pc = "returned"
    /\ Len(Returned) = 2
    /\ \E th \in Thresholds :
          /\ threshold < th
          /\ DetectedCount(Video, th, min_scene_length) = 1
          /\ Boundaries(Video, th, min_scene_length, Video.frames)[2] # Returned[2][1]

\* C6: for the video and threshold of the call, a min_scene_length at least
\* the detector's accepts at most as many boundaries as the call did, and one
\* at most the detector's accepts at least as many.
C6_MinLengthMonotone ==
    pc = "returned" =>
        \A ml \in MinLengths :
            /\ min_scene_length <= ml =>
                  DetectedCount(Video, threshold, ml) <= Len(Returned) - 1
            /\ ml <= min_scene_length =>
                  Len(Returned) - 1 <= DetectedCount(Video, threshold, ml)

\* a longer min_scene_length rejects a boundary this call accepted
C6_Witness ==
    /\ pc = "returned"
    /\ Len(Returned) = 3
    /\ min_scene_length >= 0
    /\ \E ml \in MinLengths :
          /\ min_scene_length < ml
          /\ DetectedCount(Video, threshold, ml) = 1
\* C7: a call that returns for a video for which this instance returned a
\* list before returns that same list, whatever self.scene_timestamps held
\* when the call began.
C7_Idempotent ==
    (pc = "returned" /\ prior_result # None) => result = prior_result

\* the call returned for a video scanned before, and began with the
\* intervals of another video in self.scene_timestamps
C7_Witness ==
    /\ pc = "returned"
    /\ prior_result # None
    /\ prior_timestamps # <<>>
    /\ prior_timestamps # prior_result[1]
    /\ Len(Returned) >= 2

\* C8: a source that reports total_frames = 0 (fps > 0) makes the call fail
\* before any frame is read; no list is returned.
C8_ZeroFramesRejected ==
    (cap # "none" /\ pc # "opened" /\ Video.total_frames = 0 /\ Video.fps > 0) =>
        /\ pc # "returned"
        /\ reads = 0

\* C9: a source that reports fps = 0 makes the call fail before any frame is
\* read, by a precondition check and never by a division by zero.
C9_ZeroFpsChecked ==
    (cap # "none" /\ pc # "opened" /\ Video.fps = 0) =>
        /\ pc = "raised"
        /\ reads = 0
        /\ error # "ZeroDivisionError"

\* C10: a detector with threshold <= 0 or min_scene_length < 0 reads no frame
\* and returns no list.
C10_ConfigurationRejected ==
    (threshold <= 0 \/ min_scene_length < 0) =>
        /\ reads = 0
        /\ pc # "returned"
\* C11: in a call with a progress callback, the callback has been invoked
\* once for every multiple of 30 among the frames read so far, every value
\* passed lies in [0, 100], the values never decrease, and no step of the
\* invocation (the computation of the value included) fails.
C11_ProgressSink ==
    (has_callback /\ pc \in {"scan", "returned", "raised"} /\ fps # 0) =>
        /\ Len(progress_log) = frame_count \div ProgressEvery
        /\ \A k \in 1 .. Len(progress_log) :
              /\ GE(progress_log[k], Zero)
              /\ GE(FromInt(100), progress_log[k])
        /\ \A k \in 1 .. Len(progress_log) - 1 :
              GE(progress_log[k + 1], progress_log[k])
        /\ error # "ZeroDivisionError"
\* the scene numbers of a list whose interval lasts at least half a second
SplitEligible(list) ==
    { i \in 1 .. Len(list) : GE(Sub(list[i][2], list[i][1]), <<1, 2>>) }

\* the scene numbers held by a sequence of scene numbers
Range(seq) == { seq[k] : k \in 1 .. Len(seq) }

\* C12: in split_video_into_scenes an interval shorter than 0.5 seconds is
\* never attempted and never among the created clips, an interval of 0.5
\* seconds or more (exactly 0.5 included) is attempted, and the report lists
\* every interval under its original scene number, with total_scenes the
\* number of intervals and created_clips at most the number of intervals
\* that last 0.5 seconds or more.
C12_ClipFloor ==
    /\ pc \in {"splitting", "split_returned"} =>
          /\ Range(attempts) =
                { i \in SplitEligible(split_list) : i <= split_i }
          /\ Range(created_clips) \subseteq Range(attempts)
    /\ pc = "split_returned" =>
          /\ Range(attempts) = SplitEligible(split_list)
          /\ report # None
          /\ report[1].total_scenes = Len(split_list)
          /\ Len(report[1].scenes) = Len(split_list)
          /\ \A i \in 1 .. Len(split_list) :
                /\ report[1].scenes[i].scene_number = i
                /\ report[1].scenes[i].start_time = split_list[i][1]
                /\ report[1].scenes[i].end_time = split_list[i][2]
          /\ report[1].created_clips = Len(created_clips)
          /\ report[1].created_clips <=
                Cardinality(SplitEligible(split_list))

\* a call returned whose first interval lasts 0.3 seconds and was skipped
\* and whose second lasts exactly 0.5 seconds and was attempted
C12_Witness ==
    /\ pc = "split_returned"
    /\ split_list = << <<Zero, <<3, 10>>>>, <<<<3, 10>>, <<4, 5>>>> >>
    /\ attempts = <<2>>
    /\ report[1].scenes[1].scene_number = 1
    /\ report[1].total_scenes = 2
\* a sequence of scene numbers is in interval order
InOrder(seq) == \A k \in 1 .. Len(seq) - 1 : seq[k] < seq[k + 1]

\* C13: a clip that fails to be extracted or encoded does not abort
\* split_video_into_scenes: once the loop over the intervals runs, the call
\* only moves on to the next interval or returns; no attempt ends in a raise;
\* every interval of 0.5 seconds or more is attempted in interval order; the
\* created clips are attempted intervals in interval order; and at return the
\* report is written with created_clips the number of created clips.
C13_FailureIsolation ==
    /\ [](/\ pc = "split_raised" => attempts = <<>>
          /\ pc \in {"splitting", "split_returned"} =>
                /\ InOrder(attempts)
                /\ InOrder(created_clips)
                /\ \A i \in 1 .. split_i :
                      ~GT(ClipFloor, Sub(split_list[i][2], split_list[i][1]))
                         => \E k \in 1 .. Len(attempts) : attempts[k] = i
                /\ \A k \in 1 .. Len(created_clips) :
                      \E j \in 1 .. Len(attempts) :
                         attempts[j] = created_clips[k]
          /\ pc = "split_returned" =>
                /\ split_i = Len(split_list)
                /\ report # None
                /\ report[1].created_clips = Len(created_clips))
    /\ [][pc = "splitting" =>
             \/ pc' = "splitting" /\ split_i' = split_i + 1
             \/ pc' = "split_returned"]_vars

\* a call returned in which the clip of the first interval failed and the
\* clip of the second was still attempted and created
C13_Witness ==
    /\ pc = "split_returned"
    /\ attempts = <<1, 2>>
    /\ created_clips = <<2>>
    /\ report[1].created_clips = 1
\* C14: when the source is exhausted detect_scenes appends total_frames / fps
\* as the final boundary without merging it into the last accepted one: the
\* call returns one interval more than the scan accepted boundaries, the last
\* interval runs from the last boundary of the scan to total_frames / fps,
\* and this holds however close the two are.
C14_TailRule ==
    /\ [](pc = "returned" =>
             /\ Len(Returned) =
                   1 + DetectedCount(Video, threshold, min_scene_length)
             /\ Returned[Len(Returned)][2] = TrueDiv(total_frames, fps))
    /\ [][pc = "scan" /\ pc' = "returned" =>
             /\ Len(result'[1]) = 1 + (Len(scene_changes) - 1)
             /\ result'[1][Len(scene_changes)] =
                   <<scene_changes[Len(scene_changes)],
                     TrueDiv(total_frames, fps)>>]_vars

\* a call returned with a detected boundary and a last interval that is
\* shorter than min_scene_length
C14_Witness ==
    /\ pc = "returned"
    /\ Len(Returned) >= 2
    /\ GT(Returned[Len(Returned)][2], Returned[Len(Returned)][1])
    /\ GT(FromInt(min_scene_length),
          Sub(Returned[Len(Returned)][2], Returned[Len(Returned)][1]))
\* C15: process_video enters split_video_into_scenes only from a
\* detect_scenes that returned normally, for the same video and with the
\* list it returned; when detect_scenes raised, the run has created no
\* output directory, opened no clip source, written no clip and no report,
\* and the error stays with the caller.
C15_SplitAfterDetect ==
    /\ []((in_process /\ pc = "raised") =>
             /\ error # "none"
             /\ ~dir_created
             /\ video_clip = "none"
             /\ attempts = <<>>
             /\ created_clips = <<>>
             /\ report = None)
    /\ [][(in_process' /\ pc' = "split_called") =>
             /\ in_process
             /\ pc = "returned"
             /\ error = "none"
             /\ split_path' = video_path
             /\ split_list' = result[1]]_vars

\* process_video's detect_scenes raised during the scan, after frames
\* were read
C15_Witness ==
    /\ in_process
    /\ pc = "raised"
    /\ error = "CompareFailed"
    /\ frame_count >= 1
    /\ report = None
\* C16: split_video_into_scenes entered with no interval (None passed while
\* the instance stores none, or an empty list passed) raises, and has then
\* created no output directory, opened no video, attempted or written no
\* clip and written no report.
C16_NoIntervalsNoEffect ==
    /\ []((pc \in {"split_called", "split_raised", "splitting",
                   "split_returned"} /\ split_list = <<>>) =>
             /\ pc \in {"split_called", "split_raised"}
             /\ pc = "split_raised" => error = "NoTimestamps"
             /\ ~dir_created
             /\ video_clip = "none"
             /\ attempts = <<>>
             /\ created_clips = <<>>
             /\ report = None)
    /\ [][(pc = "split_called" /\ split_list = <<>>) =>
             pc' = "split_raised" /\ error' = "NoTimestamps"]_vars

\* a call that passed an empty list to an instance that stores intervals
\* has raised
C16_Witness ==
    /\ pc = "split_raised"
    /\ error = "NoTimestamps"
    /\ split_list = <<>>
    /\ scene_timestamps # <<>>
    /\ ~dir_created
\* C17: a detect_scenes call that raised has left self.scene_timestamps as it
\* was when the call began: empty if no call on the instance has returned,
\* otherwise the intervals a returned call produced, for this or another
\* video; self.scene_timestamps changes only in the step that ends a
\* completed scan, and then becomes the list that call returns.
C17_TimestampsOnlyOnReturn ==
    /\ [](/\ pc = "raised" =>
                /\ scene_timestamps = prior_timestamps
                /\ (\A p \in DOMAIN history : history[p] = None)
                      => scene_timestamps = <<>>
                /\ scene_timestamps # <<>>
                      => \E p \in DOMAIN history :
                            /\ history[p] # None
                            /\ scene_timestamps = history[p][1]
          /\ pc = "returned" => scene_timestamps = Returned)
    /\ [][scene_timestamps' # scene_timestamps =>
             /\ pc = "scan"
             /\ frame_count = Video.frames
             /\ pc' = "returned"
             /\ scene_timestamps' = result'[1]]_vars

\* a call on the first video raised after the capture opened, and the
\* instance still stores the intervals of a call on the second video
C17_Witness ==
    /\ pc = "raised"
    /\ video_path = 1
    /\ cap = "open"
    /\ history[2] # None
    /\ scene_timestamps = history[2][1]
    /\ history[1] # None => scene_timestamps # history[1][1]
\* C18: when control has left a detect_scenes call whose capture opened,
\* by a return or by a raise after the opening, the capture is released.
C18_ReleasedOnEveryExit ==
    (pc \in {"returned", "raised"} /\ error # "CouldNotOpen") =>
        cap = "released"

====
